---- MODULE Spec2Model ----
(***************************************************************************)
(* Webhook notification subsystem of Callora-Backend:                      *)
(*   URL admission validator   src/src/webhooks/webhook.validator.ts       *)
(*   webhook registry          src/src/webhooks/webhook.store.ts           *)
(*   registration router       src/src/repositories/apiRepository.ts:86-158*)
(*   delivery dispatcher       src/src/webhooks/webhook.dispatcher.ts      *)
(*   event fan-out             src/src/events/event.emitter.ts             *)
(***************************************************************************)
EXTENDS Integers, Sequences, FiniteSets, TLC

VARIABLES
    store,      \* the Map of webhook.store.ts:3, as the sequence of its values in insertion order
    reqs,       \* POST /api/webhooks requests suspended at `await dns.lookup` (validator.ts:40)
    lastRes,    \* the HTTP response the router sent last
    calls,      \* one record per handleEvent call (event.emitter.ts:14-33)
    chains,     \* one record per dispatchWebhook call (webhook.dispatcher.ts:16-71)
    now,        \* the wall clock read by `new Date()`
    val         \* a direct call of validateWebhookUrl (webhook.validator.ts:21-60)

vars == <<store, reqs, lastRes, calls, chains, now, val>>

(***************************************************************************)
(* JavaScript values                                                       *)
(***************************************************************************)
\* a property that is absent from the JSON body / an optional field that is not set
Undefined == "<undefined>"
\* JSON null
Null == "<null>"

\* JavaScript truthiness of a string-or-absent value: `!x`, `if (x)`
Truthy(v) == v \notin {Undefined, Null, ""}

\* `x ?? undefined` (apiRepository.ts:129)
NullishToUndefined(v) == IF v \in {Undefined, Null} THEN Undefined ELSE v

\* the elements of a sequence
Range(s) == {s[i] : i \in 1..Len(s)}

\* 2^n
RECURSIVE Pow2(_)
Pow2(n) == IF n = 0 THEN 1 ELSE 2 * Pow2(n - 1)

(***************************************************************************)
(* URL admission validator (webhook.validator.ts)                          *)
(*                                                                         *)
(* A candidate URL string is modelled by its text pieces                   *)
(* <<scheme, host, port>>, standing for  scheme "://" host [":" port] "/hook"; *)
(* a piece that is "" is missing from the text (with its separator).       *)
(* NoUrl is the absent property and EmptyUrl the empty string.             *)
(***************************************************************************)
NoUrl == <<>>
EmptyUrl == <<"", "", "">>

\* `!url` of apiRepository.ts:103
UrlFalsy(rawUrl) == rawUrl \in {NoUrl, EmptyUrl}

\* the default port of a scheme, which `new URL` drops from .port
DefaultPort(scheme) ==
    CASE scheme = "https" -> "443"
      [] scheme = "http" -> "80"
      [] scheme = "ftp" -> "21"
      [] OTHER -> ""

\* the port texts `new URL` accepts (a number up to 65535, or none)
ValidPortTexts == {"", "80", "443", "21", "8080"}

\* `new URL(rawUrl)` (validator.ts:25): throws on a string that is no absolute URL;
\* otherwise protocol, hostname and port, the port "" when it is the scheme's default
UrlParses(rawUrl) ==
    /\ Len(rawUrl) = 3
    /\ rawUrl[1] # ""
    /\ rawUrl[2] # ""
    /\ rawUrl[3] \in ValidPortTexts

NewURL(rawUrl) ==
    [protocol |-> rawUrl[1] \o ":",
     hostname |-> rawUrl[2],
     port     |-> IF rawUrl[3] = DefaultPort(rawUrl[1]) THEN "" ELSE rawUrl[3]]

\* An address is the sequence of its groups: 4 octets (IPv4) or 8 hextets (IPv6).
GroupBits(ip) == IF Len(ip) = 4 THEN 8 ELSE 16

\* webhook.validator.ts:5-17, each range as [base, prefix length]
BLOCKED_RANGES ==
    << [base |-> <<10, 0, 0, 0>>,      prefix |-> 8],
       [base |-> <<172, 16, 0, 0>>,    prefix |-> 12],
       [base |-> <<192, 168, 0, 0>>,   prefix |-> 16],
       [base |-> <<127, 0, 0, 0>>,     prefix |-> 8],
       [base |-> <<169, 254, 0, 0>>,   prefix |-> 16],
       [base |-> <<0, 0, 0, 0, 0, 0, 0, 1>>,     prefix |-> 128],
       [base |-> <<64512, 0, 0, 0, 0, 0, 0, 0>>, prefix |-> 7],
       [base |-> <<0, 0, 0, 0>>,       prefix |-> 8],
       [base |-> <<100, 64, 0, 0>>,    prefix |-> 10],
       [base |-> <<198, 18, 0, 0>>,    prefix |-> 15],
       [base |-> <<240, 0, 0, 0>>,     prefix |-> 4] >>

\* CIDR membership: same family and the leading `prefix` bits agree
InCidr(ip, range) ==
    LET w == GroupBits(ip) IN
    /\ Len(ip) = Len(range.base)
    /\ \A i \in 1..Len(ip) :
          LET lo == (i - 1) * w IN
          IF range.prefix >= lo + w THEN ip[i] = range.base[i]
          ELSE IF range.prefix <= lo THEN TRUE
          ELSE ip[i] \div Pow2(lo + w - range.prefix)
                 = range.base[i] \div Pow2(lo + w - range.prefix)

\* ipRangeCheck(ip, BLOCKED_RANGES) (validator.ts:48)
ipRangeCheck(ip, ranges) == \E k \in 1..Len(ranges) : InCidr(ip, ranges[k])

\* the messages of the WebhookValidationErrors, by the name the design gives each
InvalidFormat == "Invalid URL format."
SchemeNotAllowed == "Webhook URL must use HTTPS in production."
UnresolvableHost == "Could not resolve webhook hostname."
PrivateAddressBlocked == "Webhook URL resolves to a private/internal IP address, which is not allowed."
PortNotAllowed == "Only ports 80 and 443 are allowed in production."
Accepted == "accepted"

\* the result of dns.lookup that rejects
DnsFail == <<"ENOTFOUND">>
DnsFailed(dnsResult) == dnsResult = <<DnsFail>>

\* validateWebhookUrl up to its `await dns.lookup` (validator.ts:21-40):
\* the error thrown, or "lookup" when the lookup is issued
validateBeforeLookup(rawUrl, isProduction) ==
    IF ~UrlParses(rawUrl) THEN InvalidFormat
    ELSE IF isProduction /\ NewURL(rawUrl).protocol # "https:" THEN SchemeNotAllowed
    ELSE "lookup"

\* mutant: only the first resolved address is checked
FirstBlockedHeadOnly(addresses) ==
    IF ipRangeCheck(addresses[1], BLOCKED_RANGES) THEN 1 ELSE 0

\* the first address of the list that is in a blocked range, 0 if none (validator.ts:47-53)
FirstBlocked(addresses) ==
    LET hits == {i \in 1..Len(addresses) : ipRangeCheck(addresses[i], BLOCKED_RANGES)}
    IN IF hits = {} THEN 0 ELSE CHOOSE i \in hits : \A j \in hits : i <= j

\* mutant: blocked ranges are enforced in every posture
validateAfterLookupAlwaysBlocks(parsed, isProduction, dnsResult) ==
    IF DnsFailed(dnsResult) THEN UnresolvableHost
    ELSE IF FirstBlocked(dnsResult) # 0 THEN PrivateAddressBlocked
    ELSE IF isProduction /\ parsed.port # "" /\ parsed.port \notin {"80", "443"}
         THEN PortNotAllowed
    ELSE Accepted

\* mutant: the port is checked before the resolved addresses
validateAfterLookupPortFirst(parsed, isProduction, dnsResult) ==
    IF DnsFailed(dnsResult) THEN UnresolvableHost
    ELSE IF isProduction /\ parsed.port # "" /\ parsed.port \notin {"80", "443"}
         THEN PortNotAllowed
    ELSE IF isProduction /\ FirstBlocked(dnsResult) # 0 THEN PrivateAddressBlocked
    ELSE Accepted

\* validateWebhookUrl from the lookup's outcome on (validator.ts:40-59)
validateAfterLookup(parsed, isProduction, dnsResult) ==
    IF DnsFailed(dnsResult) THEN UnresolvableHost
    ELSE IF isProduction /\ FirstBlocked(dnsResult) # 0 THEN PrivateAddressBlocked
    ELSE IF isProduction /\ parsed.port # "" /\ parsed.port \notin {"80", "443"}
         THEN PortNotAllowed
    ELSE Accepted

\* validateWebhookUrl as a whole, given what the lookup answers when it is issued
validateWebhookUrl(rawUrl, isProduction, dnsResult) ==
    IF validateBeforeLookup(rawUrl, isProduction) # "lookup"
    THEN validateBeforeLookup(rawUrl, isProduction)
    ELSE validateAfterLookup(NewURL(rawUrl), isProduction, dnsResult)

(***************************************************************************)
(* Webhook registry (webhook.store.ts)                                     *)
(***************************************************************************)
\* Map.prototype.has
Has(m, developerId) == \E i \in 1..Len(m) : m[i].developerId = developerId

\* mutant: an existing entry is kept (first writer wins)
registerKeepsFirst(m, config) ==
    IF \E i \in 1..Len(m) : m[i].developerId = config.developerId
    THEN m
    ELSE Append(m, config)

\* mutant: an existing entry is updated field by field: events are merged and a
\* secret that the new config lacks is kept
registerMerges(m, config) ==
    IF \E i \in 1..Len(m) : m[i].developerId = config.developerId
    THEN [i \in 1..Len(m) |->
            IF m[i].developerId = config.developerId
            THEN [config EXCEPT !.events = m[i].events \o config.events,
                                !.secret = IF config.secret = "<undefined>"
                                           THEN m[i].secret ELSE config.secret]
            ELSE m[i]]
    ELSE Append(m, config)

\* mutant: a re-registered entry moves to the end of the iteration order
registerMovesToEnd(m, config) ==
    Append(SelectSeq(m, LAMBDA cfg : cfg.developerId # config.developerId), config)

\* mutant: every registration adds an entry, next to the developer's earlier ones
registerAlwaysAppends(m, config) == Append(m, config)

\* WebhookStore.register: Map.set keeps the position of an existing key, appends a new one
register(m, config) ==
    IF Has(m, config.developerId)
    THEN [i \in 1..Len(m) |-> IF m[i].developerId = config.developerId THEN config ELSE m[i]]
    ELSE Append(m, config)

\* WebhookStore.get; <<>> stands for undefined, <<config>> for a config
get(m, developerId) == SelectSeq(m, LAMBDA cfg : cfg.developerId = developerId)

\* WebhookStore.delete
delete(m, developerId) == SelectSeq(m, LAMBDA cfg : cfg.developerId # developerId)

\* WebhookStore.getByEvent
getByEvent(m, event) == SelectSeq(m, LAMBDA cfg : event \in Range(cfg.events))

\* WebhookStore.list
list(m) == m

(***************************************************************************)
(* Registration router (apiRepository.ts:86-158)                           *)
(*                                                                         *)
(* A request body is [developerId, url, events, secret]; events is         *)
(* [kind, items] with kind "array" for a JSON array of items, "string" for *)
(* a JSON string and "missing" for an absent property.                     *)
(***************************************************************************)
\* apiRepository.ts:93-97
VALID_EVENTS == <<"new_api_call", "settlement_completed", "low_balance_alert">>

\* Array.isArray(events)
IsArray(events) == events.kind = "array"

\* events.filter(e => !VALID_EVENTS.includes(e)) (apiRepository.ts:109)
invalidEvents(events) == SelectSeq(events.items, LAMBDA e : e \notin Range(VALID_EVENTS))

\* the JSON bodies of the responses
ErrorBody(msg, invalid) == [error |-> msg, invalid |-> invalid]
RequiredMsg == "developerId, url, and a non-empty events array are required."
InvalidEventsMsg == "Invalid event types"
NoRes == [op |-> "none", req |-> <<>>, status |-> 0, body |-> <<>>]
Res(op, req, status, body) == [op |-> op, req |-> <<req>>, status |-> status, body |-> body]

\* mutant: the event names are not checked against VALID_EVENTS
bodyChecksNoEnum(body) ==
    IF \/ ~Truthy(body.developerId)
       \/ UrlFalsy(body.url)
       \/ ~IsArray(body.events)
       \/ Len(body.events.items) = 0
    THEN <<ErrorBody(RequiredMsg, <<>>)>>
    ELSE <<>>

\* mutant: an empty events array is let through
bodyChecksAllowsEmpty(body) ==
    IF \/ ~Truthy(body.developerId)
       \/ UrlFalsy(body.url)
       \/ ~IsArray(body.events)
    THEN <<ErrorBody(RequiredMsg, <<>>)>>
    ELSE IF Len(invalidEvents(body.events)) > 0
    THEN <<ErrorBody(InvalidEventsMsg, invalidEvents(body.events))>>
    ELSE <<>>

\* the checks of router.post('/') that precede URL validation (apiRepository.ts:103-114):
\* the 400 body, or <<>> when the request passes them
bodyChecks(body) ==
    IF \/ ~Truthy(body.developerId)
       \/ UrlFalsy(body.url)
       \/ ~IsArray(body.events)
       \/ Len(body.events.items) = 0
    THEN <<ErrorBody(RequiredMsg, <<>>)>>
    ELSE IF Len(invalidEvents(body.events)) > 0
    THEN <<ErrorBody(InvalidEventsMsg, invalidEvents(body.events))>>
    ELSE <<>>

\* mutant: the secret of the request is not stored
NewConfigNoSecret(body, createdAt) ==
    [developerId |-> body.developerId,
     url         |-> body.url,
     events      |-> body.events.items,
     secret      |-> Undefined,
     createdAt   |-> createdAt]

\* the config object built at apiRepository.ts:125-131
NewConfig(body, createdAt) ==
    [developerId |-> body.developerId,
     url         |-> body.url,
     events      |-> body.events.items,
     secret      |-> NullishToUndefined(body.secret),
     createdAt   |-> createdAt]

\* the 201 body (apiRepository.ts:133-138)
RegisteredBody(body) ==
    [message     |-> "Webhook registered successfully.",
     developerId |-> body.developerId,
     url         |-> body.url,
     events      |-> body.events.items]

\* router.post('/') from the request to its first suspension or to its response
\* (apiRepository.ts:100-123 with validator.ts:21-40)
PostWebhook(body, isProduction) ==
    /\ IF bodyChecks(body) # <<>>
       THEN /\ lastRes' = Res("post", body, 400, bodyChecks(body)[1])
            /\ reqs' = reqs
       ELSE IF validateBeforeLookup(body.url, isProduction) # "lookup"
       THEN /\ lastRes' = Res("post", body, 400,
                              ErrorBody(validateBeforeLookup(body.url, isProduction), <<>>))
            /\ reqs' = reqs
       ELSE /\ reqs' = Append(reqs, [body |-> body, isProduction |-> isProduction,
                                     parsed |-> NewURL(body.url)])
            /\ lastRes' = lastRes
    /\ UNCHANGED <<store, calls, chains, now, val>>

\* a sequence without its i-th element
RemoveAt(s, i) == SubSeq(s, 1, i - 1) \o SubSeq(s, i + 1, Len(s))

\* mutant: the config is stored when the lookup answers, then the URL is judged
PostWebhookResumeStoreFirst(i, dnsResult) ==
    /\ i \in 1..Len(reqs)
    /\ LET r == reqs[i]
           v == validateAfterLookup(r.parsed, r.isProduction, dnsResult)
       IN /\ store' = register(store, NewConfig(r.body, now))
          /\ lastRes' = IF v # Accepted
                        THEN Res("post", r.body, 400, ErrorBody(v, <<>>))
                        ELSE Res("post", r.body, 201, RegisteredBody(r.body))
    /\ reqs' = RemoveAt(reqs, i)
    /\ UNCHANGED <<calls, chains, now, val>>

\* mutant: a request whose developerId was removed while it was suspended is given up
PostWebhookResumeUnlessRemoved(i, dnsResult) ==
    /\ i \in 1..Len(reqs)
    /\ LET r == reqs[i]
           v == validateAfterLookup(r.parsed, r.isProduction, dnsResult)
       IN IF v # Accepted
          THEN /\ lastRes' = Res("post", r.body, 400, ErrorBody(v, <<>>))
               /\ store' = store
          ELSE IF lastRes.op = "delete" /\ lastRes.req = <<r.body.developerId>>
          THEN /\ lastRes' = Res("post", r.body, 409, ErrorBody("Webhook removed.", <<>>))
               /\ store' = store
          ELSE /\ store' = register(store, NewConfig(r.body, now))
               /\ lastRes' = Res("post", r.body, 201, RegisteredBody(r.body))
    /\ reqs' = RemoveAt(reqs, i)
    /\ UNCHANGED <<calls, chains, now, val>>

\* router.post('/') resumed by the outcome of dns.lookup
\* (validator.ts:40-59, apiRepository.ts:116-138)
PostWebhookResume(i, dnsResult) ==
    /\ i \in 1..Len(reqs)
    /\ LET r == reqs[i]
           v == validateAfterLookup(r.parsed, r.isProduction, dnsResult)
       IN IF v # Accepted
          THEN /\ lastRes' = Res("post", r.body, 400, ErrorBody(v, <<>>))
               /\ store' = store
          ELSE /\ store' = register(store, NewConfig(r.body, now))
               /\ lastRes' = Res("post", r.body, 201, RegisteredBody(r.body))
    /\ reqs' = RemoveAt(reqs, i)
    /\ UNCHANGED <<calls, chains, now, val>>

\* mutant: the config is returned as stored
safeConfigLeaks(config) == config

\* `const { secret: _s, ...safeConfig } = config` (apiRepository.ts:148)
safeConfig(config) ==
    [developerId |-> config.developerId, url |-> config.url,
     events |-> config.events, createdAt |-> config.createdAt]

\* router.get('/:developerId') (apiRepository.ts:142-150)
GetWebhook(developerId) ==
    /\ lastRes' = IF get(store, developerId) = <<>>
                  THEN Res("get", developerId, 404,
                           ErrorBody("No webhook registered for this developer.", <<>>))
                  ELSE Res("get", developerId, 200, safeConfig(get(store, developerId)[1]))
    /\ UNCHANGED <<store, reqs, calls, chains, now, val>>

\* mutant: removing a developerId that has no config is answered 404
DeleteWebhookNotFound(developerId) ==
    /\ store' = delete(store, developerId)
    /\ lastRes' = IF get(store, developerId) = <<>>
                  THEN Res("delete", developerId, 404,
                           ErrorBody("No webhook registered for this developer.", <<>>))
                  ELSE Res("delete", developerId, 200, [message |-> "Webhook removed."])
    /\ UNCHANGED <<reqs, calls, chains, now, val>>

\* router.delete('/:developerId') (apiRepository.ts:153-156)
DeleteWebhook(developerId) ==
    /\ store' = delete(store, developerId)
    /\ lastRes' = Res("delete", developerId, 200, [message |-> "Webhook removed."])
    /\ UNCHANGED <<reqs, calls, chains, now, val>>

\* The response of each route as a function of the registry m it runs on and of the
\* request (for a registration: with what the lookup answers if it is asked).
\* router.post('/') (apiRepository.ts:100-139): it never reads the registry
registerResponse(m, body, isProduction, dnsResult) ==
    IF bodyChecks(body) # <<>>
    THEN Res("post", body, 400, bodyChecks(body)[1])
    ELSE IF validateWebhookUrl(body.url, isProduction, dnsResult) # Accepted
    THEN Res("post", body, 400,
             ErrorBody(validateWebhookUrl(body.url, isProduction, dnsResult), <<>>))
    ELSE Res("post", body, 201, RegisteredBody(body))

\* router.get('/:developerId') (apiRepository.ts:142-150)
getResponse(m, developerId) ==
    IF get(m, developerId) = <<>>
    THEN Res("get", developerId, 404,
             ErrorBody("No webhook registered for this developer.", <<>>))
    ELSE Res("get", developerId, 200, safeConfig(get(m, developerId)[1]))

\* router.delete('/:developerId') (apiRepository.ts:153-156)
deleteResponse(m, developerId) ==
    Res("delete", developerId, 200, [message |-> "Webhook removed."])

(***************************************************************************)
(* Delivery dispatcher (webhook.dispatcher.ts)                             *)
(***************************************************************************)
\* webhook.dispatcher.ts:5
MAX_RETRIES == 5
\* webhook.dispatcher.ts:6
BASE_DELAY_MS == 1000

\* JSON.stringify(payload): the text, as the sequence of its keys and values in order
JSONstringify(payload) ==
    <<"event", payload.event, "timestamp", payload.timestamp,
      "developerId", payload.developerId, "data", payload.data>>

\* mutant: key and message of the HMAC are swapped
signPayloadSwapped(secret, body) == <<"hmac-sha256-hex", body, secret>>

\* signPayload (dispatcher.ts:12-14): the hex digest of HMAC-SHA256, kept symbolic
signPayload(secret, body) == <<"hmac-sha256-hex", secret, body>>

\* the headers built at dispatcher.ts:21-30; signature <<>> is the header left out
Headers(config, payload, body) ==
    [contentType |-> "application/json",
     userAgent   |-> "Callora-Webhook/1.0",
     event       |-> payload.event,
     timestamp   |-> payload.timestamp,
     signature   |-> IF Truthy(config.secret)
                     THEN <<"sha256=", signPayload(config.secret, body)>>
                     ELSE <<>>]

\* axios.post(config.url, body, {headers, ...}) (dispatcher.ts:36-40): the request sent
Post(ch) == [url |-> ch.config.url, body |-> ch.body, headers |-> ch.headers]

\* mutant: linear instead of exponential backoff
BackoffDelayLinear(attempt) == BASE_DELAY_MS * (attempt + 1)

\* the delay before the attempt after `attempt` (dispatcher.ts:61)
BackoffDelay(attempt) == BASE_DELAY_MS * Pow2(attempt)

\* what awaiting axios.post gives: a response with a status, or a thrown error
IsResponse(reply) == reply.kind = "response"
\* mutant: only status 200 counts as delivered
IsSuccessOnly200(reply) == IsResponse(reply) /\ reply.status = 200

\* dispatcher.ts:42
IsSuccess(reply) == IsResponse(reply) /\ reply.status >= 200 /\ reply.status < 300

\* dispatchWebhook from its call to its first `await axios.post` (dispatcher.ts:20-36)
StartChain(call, config, payload) ==
    LET body == JSONstringify(payload)
        ch0 == [call |-> call, config |-> config, payload |-> payload, body |-> body,
                headers |-> Headers(config, payload, body),
                attempt |-> 0, pc |-> "posting", posts |-> <<>>, sleeps |-> <<>>,
                lastError |-> <<>>, log |-> <<>>, replies |-> <<>>]
    IN [ch0 EXCEPT !.posts = <<Post(ch0)>>]

\* mutant: the last error is rethrown once the attempts are used up
AfterLoopRethrow(ch) == [ch EXCEPT !.pc = "threw"]

\* mutant: once the attempts are used up the loop starts over
AfterLoopStartsOver(ch) ==
    [ch EXCEPT !.attempt = 0, !.pc = "posting", !.posts = <<Post(ch)>>,
               !.sleeps = <<>>, !.replies = <<>>]

\* the end of dispatchWebhook after the loop (dispatcher.ts:67-71): log and return
AfterLoop(ch) ==
    [ch EXCEPT !.pc = "dropped",
               !.log = <<"failed", ch.payload.event, ch.config.url, MAX_RETRIES, ch.lastError>>]

\* whether a backoff sleep follows the failed attempt `attempt` (dispatcher.ts:60)
SleepsAfter(attempt) == attempt < MAX_RETRIES - 1

\* mutant: the next attempt is sent at once, without the backoff sleep
AfterFailureNoBackoff(ch) ==
    IF ch.attempt < MAX_RETRIES - 1
    THEN [ch EXCEPT !.attempt = @ + 1, !.posts = Append(@, Post(ch))]
    ELSE AfterLoop([ch EXCEPT !.attempt = @ + 1])

\* the loop body after a failed attempt (dispatcher.ts:60-65, 34)
AfterFailure(ch) ==
    IF SleepsAfter(ch.attempt)
    THEN [ch EXCEPT !.pc = "sleeping", !.sleeps = Append(@, BackoffDelay(ch.attempt))]
    ELSE AfterLoop([ch EXCEPT !.attempt = @ + 1])

\* dispatchWebhook resumed by the outcome of axios.post (dispatcher.ts:36-65)
OnReply(ch, reply) ==
    IF IsSuccess(reply)
    THEN [ch EXCEPT !.pc = "delivered",
                    !.log = <<"delivered", ch.payload.event, ch.config.url, ch.attempt + 1>>]
    ELSE IF IsResponse(reply)
    THEN AfterFailure(ch)
    ELSE AfterFailure([ch EXCEPT !.lastError = <<reply.code, ch.attempt>>])

\* mutant: every retry rebuilds the envelope with the time of the retry
OnWakeRestamped(ch) ==
    LET payload == [ch.payload EXCEPT !.timestamp = <<"ISO-8601", now>>]
        body == JSONstringify(payload)
        ch1 == [ch EXCEPT !.attempt = @ + 1, !.pc = "posting", !.payload = payload,
                          !.body = body, !.headers = Headers(ch.config, payload, body)]
    IN [ch1 EXCEPT !.posts = Append(@, Post(ch1))]

\* mutant: before a retry the target is validated again, against what its hostname
\* resolves to now, and the delivery is given up if it is refused
OnWakeRevalidates(ch) ==
    IF val.answer # <<>> /\ validateWebhookUrl(ch.config.url, TRUE, val.answer) # Accepted
    THEN [ch EXCEPT !.pc = "dropped"]
    ELSE LET ch1 == [ch EXCEPT !.attempt = @ + 1, !.pc = "posting"]
         IN [ch1 EXCEPT !.posts = Append(@, Post(ch1))]

\* mutant: a retry looks the developer's config up again, gives the delivery up when
\* it is gone and uses the url and the secret registered now
OnWakeRereadsRegistry(ch) ==
    LET cur == get(store, ch.config.developerId)
    IN IF cur = <<>>
       THEN [ch EXCEPT !.pc = "dropped"]
       ELSE LET ch1 == [ch EXCEPT !.attempt = @ + 1, !.pc = "posting", !.config = cur[1],
                                  !.headers = Headers(cur[1], ch.payload, ch.body)]
            IN [ch1 EXCEPT !.posts = Append(@, Post(ch1))]

\* dispatchWebhook resumed by the timer of sleep: attempt++ and the next axios.post
\* (dispatcher.ts:63, 34-36)
OnWake(ch) ==
    LET ch1 == [ch EXCEPT !.attempt = @ + 1, !.pc = "posting"]
    IN [ch1 EXCEPT !.posts = Append(@, Post(ch1))]

\* the state of the promise dispatchWebhook returned
ChainPromise(ch) ==
    CASE ch.pc \in {"delivered", "dropped"} -> "fulfilled"
      [] ch.pc = "threw" -> "rejected"
      [] OTHER -> "pending"

\* mutant: sleep waits busily, holding the event loop
sleepBusyWait(cs) == {c \in 1..Len(cs) : cs[c].pc = "sleeping"}

\* sleep (dispatcher.ts:8-10) is a timer promise: the chains that hold the event loop
\* while they wait, which are none
sleep(cs) == {}

\* chain c, or a new caller (c = 0), may run: no other chain holds the event loop
LoopFree(c) == sleep(chains) \subseteq {c}

\* the indices of the chains dispatchToAll started for call k
ChainsOf(cs, k) == {c \in 1..Len(cs) : cs[c].call = k}

\* mutant: settles as soon as one of the promises is fulfilled
allSettledAny(promises) ==
    IF promises = {} \/ "fulfilled" \in promises THEN "fulfilled" ELSE "pending"

\* Promise.allSettled over the chains' promises (dispatcher.ts:77)
allSettled(promises) == IF "pending" \in promises THEN "pending" ELSE "fulfilled"

\* the promise dispatchToAll returned for call k (dispatcher.ts:73-78)
dispatchToAllPromise(cs, k) == allSettled({ChainPromise(cs[c]) : c \in ChainsOf(cs, k)})

\* dispatchToAll up to its await (dispatcher.ts:77): configs.map starts every chain
dispatchToAll(cs, call, configs, payload) ==
    cs \o [i \in 1..Len(configs) |-> StartChain(call, configs[i], payload)]

(***************************************************************************)
(* Event fan-out (event.emitter.ts)                                        *)
(***************************************************************************)
\* new Date().toISOString()
toISOString(t) == <<"ISO-8601", t>>

\* the payload built at event.emitter.ts:19-24
Payload(event, developerId, data, t) ==
    [event |-> event, timestamp |-> toISOString(t), developerId |-> developerId, data |-> data]

\* mutant: every config subscribed to the event, whoever registered it
MatchingAnyDeveloper(m, event, developerId) == getByEvent(m, event)

\* the configs handleEvent selects (event.emitter.ts:26-28)
Matching(m, event, developerId) ==
    SelectSeq(getByEvent(m, event), LAMBDA cfg : cfg.developerId = developerId)

\* the promise handleEvent returned for call k (event.emitter.ts:30-33)
handleEventPromise(k) ==
    IF calls[k].targets > 0 THEN dispatchToAllPromise(chains, k) ELSE "fulfilled"

\* calloraEvents.emit(event, developerId, data): the listener calls handleEvent without
\* awaiting it (event.emitter.ts:36-55), which runs to the awaits of its chains
\* (event.emitter.ts:14-33); emit then returns to the publisher
Emit(event, developerId, data) ==
    /\ LoopFree(0)
    /\ LET payload == Payload(event, developerId, data, now)
           configs == Matching(store, event, developerId)
           k == Len(calls) + 1
       IN /\ chains' = IF Len(configs) > 0
                       THEN dispatchToAll(chains, k, configs, payload)
                       ELSE chains
          /\ calls' = Append(calls, [payload |-> payload, targets |-> Len(configs)])
    /\ UNCHANGED <<store, reqs, lastRes, now, val>>

\* dispatchToAll(configs, payload) called by a caller of its own (dispatcher.ts:73-78):
\* it runs to its await with every chain started; calls keeps the call
DirectDispatch(configs, payload) ==
    /\ LoopFree(0)
    /\ chains' = dispatchToAll(chains, Len(calls) + 1, configs, payload)
    /\ calls' = Append(calls, [payload |-> payload, targets |-> Len(configs)])
    /\ UNCHANGED <<store, reqs, lastRes, now, val>>

\* what the target answered, as the receiver sees it: "2xx" or "fail"
ReplyClass(reply) ==
    IF reply.kind = "response" /\ reply.status \in 200..299 THEN "2xx" ELSE "fail"

\* mutant: a target that is dropped is removed from the registry
HttpReplyPrunesDead(c, reply) ==
    /\ c \in 1..Len(chains)
    /\ chains[c].pc = "posting"
    /\ LoopFree(c)
    /\ chains' = [chains EXCEPT
                    ![c] = [OnReply(@, reply) EXCEPT !.replies = Append(@, ReplyClass(reply))]]
    /\ store' = IF OnReply(chains[c], reply).pc = "dropped"
                THEN delete(store, chains[c].config.developerId)
                ELSE store
    /\ UNCHANGED <<reqs, lastRes, calls, now, val>>

\* the outcome of an axios.post arrives at chain c; replies keeps what the target
\* answered to each attempt
HttpReply(c, reply) ==
    /\ c \in 1..Len(chains)
    /\ chains[c].pc = "posting"
    /\ LoopFree(c)
    /\ chains' = [chains EXCEPT
                    ![c] = [OnReply(@, reply) EXCEPT !.replies = Append(@, ReplyClass(reply))]]
    /\ UNCHANGED <<store, reqs, lastRes, calls, now, val>>

\* the timer of chain c's backoff sleep fires
SleepElapsed(c) ==
    /\ c \in 1..Len(chains)
    /\ chains[c].pc = "sleeping"
    /\ LoopFree(c)
    /\ chains' = [chains EXCEPT ![c] = OnWake(@)]
    /\ UNCHANGED <<store, reqs, lastRes, calls, now, val>>

\* time passes
Tick(limit) ==
    /\ now < limit
    /\ now' = now + 1
    /\ UNCHANGED <<store, reqs, lastRes, calls, chains, val>>

(***************************************************************************)
(* A direct call of validateWebhookUrl (webhook.validator.ts:21-60)        *)
(***************************************************************************)
Idle == [pc |-> "idle", rawUrl |-> NoUrl, isProduction |-> FALSE, answer |-> <<>>,
         lookedUp |-> FALSE, outcome |-> ""]

\* a call about to be made: answer is what the resolver answers for the hostname
\* if it is asked
Called(rawUrl, isProduction, answer) ==
    [pc |-> "called", rawUrl |-> rawUrl, isProduction |-> isProduction, answer |-> answer,
     lookedUp |-> FALSE, outcome |-> ""]

\* the call runs to `await dns.lookup`, or throws before it (validator.ts:21-40)
ValidateCall ==
    /\ val.pc = "called"
    /\ val' = IF validateBeforeLookup(val.rawUrl, val.isProduction) = "lookup"
              THEN [val EXCEPT !.pc = "lookup", !.lookedUp = TRUE]
              ELSE [val EXCEPT !.pc = "done",
                               !.outcome = validateBeforeLookup(val.rawUrl, val.isProduction)]
    /\ UNCHANGED <<store, reqs, lastRes, calls, chains, now>>

\* dns.lookup answers and the call runs to its end (validator.ts:40-59)
ValidateResume ==
    /\ val.pc = "lookup"
    /\ val' = [val EXCEPT !.pc = "done",
                          !.outcome = validateAfterLookup(NewURL(val.rawUrl),
                                                          val.isProduction, val.answer)]
    /\ UNCHANGED <<store, reqs, lastRes, calls, chains, now>>

(***************************************************************************)
(* Inputs and bounds                                                       *)
(***************************************************************************)
Devs == {"devA", "devB"}
EventTypes == Range(VALID_EVENTS)
Arr(items) == [kind |-> "array", items |-> items]
Body(d, u, ev, sec) == [developerId |-> d, url |-> u, events |-> ev, secret |-> sec]
Response(status) == [kind |-> "response", status |-> status, code |-> ""]
Thrown(code) == [kind |-> "error", status |-> 0, code |-> code]

UrlA == <<"https", "hooks.a.example", "">>
UrlA2 == <<"https", "hooks2.a.example", "">>
UrlB == <<"https", "hooks.b.example", "">>

PublicV4 == <<93, 184, 216, 34>>
Loopback == <<127, 0, 0, 1>>

Init ==
    /\ store = <<>>
    /\ reqs = <<>>
    /\ lastRes = NoRes
    /\ calls = <<>>
    /\ chains = <<>>
    /\ now = 0
    /\ val = Idle

(***************************************************************************)
(* Spec: registry, fan-out and dispatcher together                         *)
(***************************************************************************)
MaxCalls == 1       \* emits per behaviour

SysBodies ==
    { Body("devA", UrlA, Arr(<<"new_api_call">>), "s1"),
      Body("devA", UrlA2, Arr(<<"new_api_call", "low_balance_alert">>), Undefined),
      Body("devB", UrlB, Arr(<<"new_api_call">>), "s2") }
SysDns == { <<PublicV4>>, <<DnsFail>> }
SysEvents == {"new_api_call", "low_balance_alert"}
SysReplies == { Response(200), Thrown("ETIMEDOUT") }

\* registrations are made one after the other here
SysPost == \E body \in SysBodies : reqs = <<>> /\ PostWebhook(body, TRUE)
SysResume == \E i \in 1..Len(reqs), r \in SysDns : PostWebhookResume(i, r)
SysDelete == \E d \in Devs : DeleteWebhook(d)
SysEmit == \E e \in SysEvents, d \in Devs : Len(calls) < MaxCalls /\ Emit(e, d, "data")
SysReply == \E c \in 1..Len(chains), reply \in SysReplies : HttpReply(c, reply)
SysWake == \E c \in 1..Len(chains) : SleepElapsed(c)

Next == SysPost \/ SysResume \/ SysDelete \/ SysEmit \/ SysReply \/ SysWake

Spec == Init /\ [][Next]_vars

(***************************************************************************)
(* SpecChain: single delivery chains against every kind of reply           *)
(***************************************************************************)
ChainCalls == 1     \* emits per behaviour

ChainBodies ==
    { Body("devA", UrlA, Arr(<<"new_api_call">>), "s1"),
      Body("devA", UrlA2, Arr(<<"new_api_call">>), Undefined) }
ChainReplies ==
    { Response(200), Response(204), Response(299), Response(300), Response(404),
      Response(500), Thrown("ETIMEDOUT") }

\* registrations are made one after the other here
ChPost == \E body \in ChainBodies : reqs = <<>> /\ PostWebhook(body, TRUE)
ChResume == \E i \in 1..Len(reqs) : PostWebhookResume(i, <<PublicV4>>)
ChEmit == \E e \in {"new_api_call", "low_balance_alert"} :
              Len(calls) < ChainCalls /\ Emit(e, "devA", "data")
ChReply == \E c \in 1..Len(chains), reply \in ChainReplies : HttpReply(c, reply)
ChWake == \E c \in 1..Len(chains) : SleepElapsed(c)

NextChain == ChPost \/ ChResume \/ ChEmit \/ ChReply \/ ChWake

SpecChain == Init /\ [][NextChain]_vars

\* SpecChainFair: every axios.post settles (a response, an error, or the 10 s timeout
\* of dispatcher.ts:38) and every setTimeout of sleep fires
ChainFairness ==
    \A c \in 1..ChainCalls :
        /\ WF_vars(\E reply \in ChainReplies : HttpReply(c, reply))
        /\ WF_vars(SleepElapsed(c))

SpecChainFair == Init /\ [][NextChain]_vars /\ ChainFairness

(***************************************************************************)
(* SpecFanOut: several events and targets in delivery at once              *)
(***************************************************************************)
FanCalls == 2       \* emits per behaviour

\* both developers have registered: the registry after these two registrations
FanBodyA == Body("devA", UrlA, Arr(<<"new_api_call", "low_balance_alert">>), "s1")
FanBodyB == Body("devB", UrlB, Arr(<<"new_api_call">>), Undefined)
FanStore == register(register(<<>>, NewConfig(FanBodyA, 0)), NewConfig(FanBodyB, 0))

InitFanOut ==
    /\ store = FanStore
    /\ reqs = <<>>
    /\ lastRes = Res("post", FanBodyB, 201, RegisteredBody(FanBodyB))
    /\ calls = <<>>
    /\ chains = <<>>
    /\ now = 0
    /\ val = Idle

FanEmits == { <<"new_api_call", "devA">>, <<"low_balance_alert", "devA">>,
              <<"new_api_call", "devB">> }
FoEmit == \E ed \in FanEmits : Len(calls) < FanCalls /\ Emit(ed[1], ed[2], "data")
FoReply == \E c \in 1..Len(chains), reply \in SysReplies : HttpReply(c, reply)
FoWake == \E c \in 1..Len(chains) : SleepElapsed(c)

NextFanOut == FoEmit \/ FoReply \/ FoWake

SpecFanOut == InitFanOut /\ [][NextFanOut]_vars

(***************************************************************************)
(* SpecValidate: validateWebhookUrl on candidate URLs, postures and        *)
(* lookup results                                                          *)
(***************************************************************************)
Schemes == {"https", "http", "ftp", ""}
Hosts == {"hooks.a.example", "127.0.0.1", ""}
Ports == {"", "80", "443", "8080", "21", "99999"}
RawUrls == {<<sc, h, p>> : sc \in Schemes, h \in Hosts, p \in Ports} \cup {NoUrl}

Addresses ==
    { PublicV4, Loopback, <<172, 31, 255, 254>>, <<172, 32, 0, 1>>, <<192, 168, 1, 1>>,
      <<100, 64, 0, 1>>, <<100, 128, 0, 1>>, <<198, 19, 0, 1>>, <<240, 0, 0, 1>>,
      <<0, 0, 0, 0, 0, 0, 0, 1>>, <<64768, 0, 0, 0, 0, 0, 0, 1>>,
      <<65152, 0, 0, 0, 0, 0, 0, 1>>, <<9734, 10240, 0, 0, 0, 0, 0, 1>> }
MaxAddrs == 2       \* addresses in one lookup result
AddrLists == UNION {[1..n -> Addresses] : n \in 1..MaxAddrs}
DnsResults == AddrLists \cup {<<DnsFail>>}

InitValidate ==
    /\ store = <<>>
    /\ reqs = <<>>
    /\ lastRes = NoRes
    /\ calls = <<>>
    /\ chains = <<>>
    /\ now = 0
    /\ val \in {Called(u, p, r) : u \in RawUrls, p \in BOOLEAN, r \in DnsResults}

NextValidate == ValidateCall \/ ValidateResume

SpecValidate == InitValidate /\ [][NextValidate]_vars

(***************************************************************************)
(* SpecAdmission: registration requests with every kind of events value    *)
(***************************************************************************)
UrlHttp == <<"http", "localhost", "8080">>
UrlText == <<"", "not a url", "">>

AdmEvents ==
    { [kind |-> "missing", items |-> <<>>],
      [kind |-> "string", items |-> <<>>],
      Arr(<<>>),
      Arr(<<"new_api_call">>),
      Arr(<<"new_api_call", "webhook_deleted">>),
      Arr(<<"settlement_completed", "low_balance_alert">>) }
AdmBodies ==
    { Body(d, u, ev, sec) : d \in {"devA", Undefined}, u \in {UrlA, UrlHttp, UrlText, NoUrl},
                            ev \in AdmEvents, sec \in {"s1", Null} }
MaxInflight == 1    \* registrations suspended in dns.lookup at a time
AdmDns == { <<PublicV4>>, <<PublicV4, Loopback>>, <<DnsFail>> }

AdPost == \E body \in AdmBodies, p \in BOOLEAN : Len(reqs) < MaxInflight /\ PostWebhook(body, p)
AdResume == \E i \in 1..Len(reqs), r \in AdmDns : PostWebhookResume(i, r)
AdGet == GetWebhook("devA")
AdDelete == DeleteWebhook("devA")

NextAdmission == AdPost \/ AdResume \/ AdGet \/ AdDelete

SpecAdmission == Init /\ [][NextAdmission]_vars

(***************************************************************************)
(* SpecRegistry: overlapping registrations and removals while time passes  *)
(***************************************************************************)
RegBodyA1 == Body("devA", UrlA, Arr(<<"new_api_call">>), "s1")
RegBodyA2 == Body("devA", UrlA2, Arr(<<"low_balance_alert">>), Null)
RegBodyB == Body("devB", UrlB, Arr(<<"new_api_call">>), "s2")
RegBodies == { RegBodyA1, RegBodyA2, RegBodyB }
RegDns == { <<PublicV4>>, <<DnsFail>> }
RegInflight == 2    \* registrations suspended in dns.lookup at a time
MaxTime == 2        \* clock ticks per behaviour

RgPost == \E body \in RegBodies : Len(reqs) < RegInflight /\ PostWebhook(body, TRUE)
RgResume == \E i \in 1..Len(reqs), r \in RegDns : PostWebhookResume(i, r)
RgDelete == \E d \in Devs : DeleteWebhook(d)
RgTick == Tick(MaxTime)

NextRegistry == RgPost \/ RgResume \/ RgDelete \/ RgTick

SpecRegistry == Init /\ [][NextRegistry]_vars

(***************************************************************************)
(* SpecEnvelope: deliveries and their retries while time passes            *)
(***************************************************************************)
EnvCalls == 1       \* emits per behaviour
EnvTime == 2        \* clock ticks per behaviour

EvEmit == \E ed \in FanEmits : Len(calls) < EnvCalls /\ Emit(ed[1], ed[2], "data")
EvReply == \E c \in 1..Len(chains), reply \in SysReplies : HttpReply(c, reply)
EvWake == \E c \in 1..Len(chains) : SleepElapsed(c)
EvTick == Tick(EnvTime)

NextEnvelope == EvEmit \/ EvReply \/ EvWake \/ EvTick

SpecEnvelope == InitFanOut /\ [][NextEnvelope]_vars

(***************************************************************************)
(* SpecRebind: deliveries to a target whose hostname now resolves to a     *)
(* loopback address. Both configs were admitted when their hostnames       *)
(* resolved to public addresses; val is a validateWebhookUrl call for      *)
(* devA's URL made now, which the resolver answers with 127.0.0.1.         *)
(***************************************************************************)
RebindCalls == 1    \* emits per behaviour

InitRebind ==
    /\ store = FanStore
    /\ reqs = <<>>
    /\ lastRes = Res("post", FanBodyB, 201, RegisteredBody(FanBodyB))
    /\ calls = <<>>
    /\ chains = <<>>
    /\ now = 0
    /\ val = Called(UrlA, TRUE, <<Loopback>>)

RbEmit == \E ed \in FanEmits : Len(calls) < RebindCalls /\ Emit(ed[1], ed[2], "data")
RbReply == \E c \in 1..Len(chains), reply \in SysReplies : HttpReply(c, reply)
RbWake == \E c \in 1..Len(chains) : SleepElapsed(c)
RbValidate == ValidateCall
RbValidated == ValidateResume

NextRebind == RbEmit \/ RbReply \/ RbWake \/ RbValidate \/ RbValidated

SpecRebind == InitRebind /\ [][NextRebind]_vars

(***************************************************************************)
(* SpecDispatchAll: one call of dispatchToAll with a list of configs       *)
(***************************************************************************)
MaxTargets == 2     \* configs in the list

DaConfigs == { NewConfig(FanBodyA, 0), NewConfig(FanBodyB, 0) }
DaConfigLists == UNION {[1..n -> DaConfigs] : n \in 0..MaxTargets}
DaPayload == Payload("new_api_call", "devA", "data", 0)

DaDispatch == \E configs \in DaConfigLists : calls = <<>> /\ DirectDispatch(configs, DaPayload)
DaReply == \E c \in 1..Len(chains), reply \in SysReplies : HttpReply(c, reply)
DaWake == \E c \in 1..Len(chains) : SleepElapsed(c)

NextDispatchAll == DaDispatch \/ DaReply \/ DaWake

SpecDispatchAll == Init /\ [][NextDispatchAll]_vars

(***************************************************************************)
(* SpecRace: removals while registrations are suspended in their lookup.   *)
(* No registration is submitted while the last response sent is the        *)
(* acknowledgment of a removal, so every request that is suspended then    *)
(* was submitted before that removal.                                      *)
(***************************************************************************)
RcPost == \E body \in RegBodies :
              lastRes.op # "delete" /\ Len(reqs) < RegInflight /\ PostWebhook(body, TRUE)

\* completions and removals are those of SpecRegistry
NextRace == RcPost \/ RgResume \/ RgDelete

SpecRace == Init /\ [][NextRace]_vars

(***************************************************************************)
(* SpecSigning: deliveries of configs registered with every kind of secret *)
(***************************************************************************)
SignCalls == 1      \* emits per behaviour

\* the `secret` of a registration body: a string, the empty string, absent, null
SignBodies ==
    { Body("devA", UrlA, Arr(<<"new_api_call">>), sec) : sec \in {"s1", "", Undefined, Null} }

\* registrations are made one after the other here
SgPost == \E body \in SignBodies : reqs = <<>> /\ PostWebhook(body, TRUE)
SgResume == \E i \in 1..Len(reqs) : PostWebhookResume(i, <<PublicV4>>)
SgEmit == Len(calls) < SignCalls /\ Emit("new_api_call", "devA", "data")

\* replies and timers are those of Spec
NextSigning == SgPost \/ SgResume \/ SgEmit \/ SysReply \/ SysWake

SpecSigning == Init /\ [][NextSigning]_vars

(***************************************************************************)
(* Properties                                                              *)
(***************************************************************************)
AllFail(ch) == \A j \in 1..Len(ch.replies) : ch.replies[j] = "fail"
Min(a, b) == IF a < b THEN a ELSE b

\* C1: a chain whose target failed on every attempt so far has made one POST per
\* answer plus the one in flight, never more than 5; it slept 1000, 2000, 4000, 8000 ms
\* after the 1st..4th failure and not after the 5th; after the 5th failure it is
\* dropped, logged as failed, and its promise is fulfilled (nothing is thrown).
C1_FailingTargetFiveAttempts ==
    \A c \in 1..Len(chains) :
        LET ch == chains[c]
            n == Len(ch.replies)
        IN AllFail(ch) =>
            /\ n <= 5
            /\ ch.sleeps = SubSeq(<<1000, 2000, 4000, 8000>>, 1, Min(n, 4))
            /\ ch.pc # "threw"
            /\ n = 5 => /\ Len(ch.posts) = 5
                        /\ ch.pc = "dropped"
                        /\ ch.log # <<>> /\ ch.log[1] = "failed"
                        /\ ChainPromise(ch) = "fulfilled"
            /\ n < 5 => /\ ch.pc \in {"posting", "sleeping"}
                        /\ Len(ch.posts) = IF ch.pc = "posting" THEN n + 1 ELSE n

C1_Witness ==
    \E c \in 1..Len(chains) :
        /\ Len(chains[c].replies) = 5
        /\ AllFail(chains[c])
        /\ chains[c].pc = "dropped"
        /\ chains[c].sleeps = <<1000, 2000, 4000, 8000>>

\* C2: the first attempt answered 2xx ends the chain: if it is attempt i (0..4), i+1
\* POSTs were made, i sleeps happened, and nothing is sent or slept afterwards.
C2_FirstSuccessEndsChain ==
    \A c \in 1..Len(chains) :
        LET ch == chains[c] IN
        \A j \in 1..Len(ch.replies) :
            ch.replies[j] = "2xx" =>
                /\ j = Len(ch.replies)
                /\ Len(ch.posts) = j
                /\ Len(ch.sleeps) = j - 1
                /\ ch.pc = "delivered"

C2_Witness ==
    \E c \in 1..Len(chains) :
        /\ chains[c].replies = <<"2xx">>
        /\ Len(chains[c].posts) = 1
        /\ chains[c].sleeps = <<>>
        /\ chains[c].pc = "delivered"

\* C3: the retry table of docs/webhooks.md: a delivery whose five attempts all fail
\* has had the delays 1s, 2s, 4s, 8s and 16s applied when it is dropped.
C3_SixteenSecondDelay ==
    \A c \in 1..Len(chains) :
        chains[c].pc = "dropped" => chains[c].sleeps = <<1000, 2000, 4000, 8000, 16000>>

\* C4: an emit of event e for developer d starts chains only for the config that is
\* registered under d at that moment, and only if its events contain e; every POST of
\* such a chain goes to that config's url, none to the url of a config registered under
\* another developer; when no config matches, nothing is sent and the handler's promise
\* is fulfilled.
C4_Routing ==
    \A c \in 1..Len(chains) :
        LET ch == chains[c]
            p == calls[ch.call].payload
        IN /\ ch.config.developerId = p.developerId
           /\ p.event \in Range(ch.config.events)
           /\ \A j \in 1..Len(ch.posts) :
                /\ ch.posts[j].url = ch.config.url
                /\ \A i \in 1..Len(store) :
                      store[i].developerId # p.developerId => store[i].url # ch.posts[j].url

C4_NoMatchNoSend ==
    \A k \in 1..Len(calls) :
        calls[k].targets = 0 =>
            /\ ChainsOf(chains, k) = {}
            /\ handleEventPromise(k) = "fulfilled"

C4_AtEmit ==
    Len(calls') = Len(calls) + 1 =>
        LET k == Len(calls')
            p == calls'[k].payload
            mine == {i \in 1..Len(store) :
                        /\ store[i].developerId = p.developerId
                        /\ p.event \in Range(store[i].events)}
        IN /\ \A c \in ChainsOf(chains', k) : \E i \in mine : chains'[c].config = store[i]
           /\ mine = {} => /\ chains' = chains
                           /\ calls'[k].targets = 0
           /\ \A c \in 1..Len(chains) : chains'[c] = chains[c]

C4_OwnEventsOnly == [](C4_Routing /\ C4_NoMatchNoSend) /\ [][C4_AtEmit]_vars

C4_Witness ==
    \E c \in 1..Len(chains), i \in 1..Len(store) :
        /\ chains[c].config.developerId = "devA"
        /\ store[i].developerId = "devB"
        /\ calls[chains[c].call].payload.event \in Range(store[i].events)
        /\ chains[c].pc = "delivered"
        /\ Len(chains[c].posts) >= 2

\* C5: chains do not wait for each other: whatever the other chains are doing, a chain
\* whose POST is in flight can take its answer, a chain whose backoff timer is due can
\* go on, and a new event can be emitted and start its chain; every chain has issued
\* its first POST by the time emit returns; and a step of one chain (an answer, a
\* failure, a drop) leaves every other chain as it was.
C5_NeverWaits ==
    /\ \A c \in 1..Len(chains) :
          /\ Len(chains[c].posts) >= 1
          /\ chains[c].pc = "posting" => ENABLED HttpReply(c, Response(200))
          /\ chains[c].pc = "sleeping" => ENABLED SleepElapsed(c)
    /\ Len(calls) < FanCalls =>
          \A ed \in FanEmits : ENABLED Emit(ed[1], ed[2], "data")

C5_NoInterference ==
    \A c1, c2 \in 1..Len(chains) :
        (c1 # c2 /\ chains'[c1] # chains[c1]) => chains'[c2] = chains[c2]

C5_ChainsIndependent == []C5_NeverWaits /\ [][C5_NoInterference]_vars

\* a chain delivered although an earlier chain, for another target or event, is still
\* in its backoff or was dropped
C5_Witness ==
    \E c1, c2 \in 1..Len(chains) :
        /\ c1 < c2
        /\ chains[c1].pc = "dropped"
        /\ chains[c2].pc = "delivered"
        /\ chains[c1].config.url # chains[c2].config.url
        /\ chains[c1].payload.event # chains[c2].payload.event

\* C6: emit returns while every chain it started still waits for the answer to its first
\* POST, and no promise on the publisher's path, of dispatchWebhook, dispatchToAll or
\* handleEvent, is ever rejected, whatever the targets answer.
C6_NothingRejected ==
    /\ \A c \in 1..Len(chains) : ChainPromise(chains[c]) # "rejected"
    /\ \A k \in 1..Len(calls) :
          /\ dispatchToAllPromise(chains, k) # "rejected"
          /\ handleEventPromise(k) # "rejected"

C6_EmitReturnsFirst ==
    Len(calls') = Len(calls) + 1 =>
        \A c \in ChainsOf(chains', Len(calls')) :
            /\ chains'[c].pc = "posting"
            /\ chains'[c].replies = <<>>
            /\ ChainPromise(chains'[c]) = "pending"

C6_FireAndForget == []C6_NothingRejected /\ [][C6_EmitReturnsFirst]_vars

C6_Witness ==
    \E c \in 1..Len(chains) :
        /\ chains[c].pc = "dropped"
        /\ chains[c].lastError # <<>>
        /\ handleEventPromise(chains[c].call) = "fulfilled"

\* The blocked ranges as the design lists them: RFC1918, loopback, link-local,
\* unique-local IPv6, 0/8, carrier-grade NAT, benchmarking, reserved.
ListedBlocked(ip) ==
    IF Len(ip) = 4
    THEN \/ ip[1] = 10
         \/ ip[1] = 172 /\ ip[2] \in 16..31
         \/ ip[1] = 192 /\ ip[2] = 168
         \/ ip[1] = 127
         \/ ip[1] = 169 /\ ip[2] = 254
         \/ ip[1] = 0
         \/ ip[1] = 100 /\ ip[2] \in 64..127
         \/ ip[1] = 198 /\ ip[2] \in 18..19
         \/ ip[1] \in 240..255
    ELSE \/ ip = <<0, 0, 0, 0, 0, 0, 0, 1>>
         \/ ip[1] \in 64512..65023
ResolvesToBlocked(answer) ==
    answer # <<DnsFail>> /\ \E i \in 1..Len(answer) : ListedBlocked(answer[i])

\* C7 as stated: every URL whose hostname resolves to an address in a blocked range is
\* refused with PrivateAddressBlocked in production posture and accepted otherwise.
C7_BlockedWhateverScheme ==
    (val.pc = "done" /\ UrlParses(val.rawUrl) /\ ResolvesToBlocked(val.answer)) =>
        IF val.isProduction THEN val.outcome = PrivateAddressBlocked
        ELSE val.outcome = Accepted

\* C7 amended: every https URL whose hostname resolves to an address in a blocked range
\* is refused with PrivateAddressBlocked in production posture; the same URL, like any
\* URL that parses and resolves, is accepted in non-production posture.
C7_HttpsBlockedInProduction ==
    (val.pc = "done" /\ UrlParses(val.rawUrl) /\ ResolvesToBlocked(val.answer)) =>
        IF val.isProduction
        THEN val.rawUrl[1] = "https" => val.outcome = PrivateAddressBlocked
        ELSE val.outcome = Accepted

C7_Witness ==
    /\ val.pc = "done"
    /\ val.isProduction
    /\ val.rawUrl = <<"https", "127.0.0.1", "">>
    /\ val.answer = <<PublicV4, Loopback>>
    /\ val.outcome = PrivateAddressBlocked

\* C8 as stated: in non-production posture validate fails exactly when the string does
\* not parse as an absolute URL.
C8_OnlyParseability ==
    (val.pc = "done" /\ ~val.isProduction) =>
        (val.outcome # Accepted <=> ~UrlParses(val.rawUrl))

\* C8 amended: in non-production posture validate fails exactly when the string does
\* not parse as an absolute URL (InvalidFormat) or its hostname does not resolve
\* (UnresolvableHost); scheme, blocked addresses and port never make it fail.
C8_ParseabilityAndResolution ==
    (val.pc = "done" /\ ~val.isProduction) =>
        /\ ~UrlParses(val.rawUrl) => val.outcome = InvalidFormat
        /\ (UrlParses(val.rawUrl) /\ val.answer = <<DnsFail>>) => val.outcome = UnresolvableHost
        /\ (UrlParses(val.rawUrl) /\ val.answer # <<DnsFail>>) => val.outcome = Accepted

C8_Witness ==
    /\ val.pc = "done"
    /\ ~val.isProduction
    /\ val.rawUrl = <<"http", "127.0.0.1", "8080">>
    /\ val.answer = <<Loopback>>
    /\ val.outcome = Accepted

\* C9: in production posture the outcome is the first failing check in the order
\* format, scheme, resolution, blocked address, port, and the hostname is looked up
\* only when format and scheme passed.
FirstFailingCheck(rawUrl, answer) ==
    IF ~(Len(rawUrl) = 3 /\ rawUrl[1] # "" /\ rawUrl[2] # "" /\ rawUrl[3] # "99999")
    THEN InvalidFormat
    ELSE IF rawUrl[1] # "https" THEN SchemeNotAllowed
    ELSE IF answer = <<DnsFail>> THEN UnresolvableHost
    ELSE IF \E i \in 1..Len(answer) : ListedBlocked(answer[i]) THEN PrivateAddressBlocked
    ELSE IF rawUrl[3] \notin {"", "80", "443"} THEN PortNotAllowed
    ELSE Accepted

C9_FirstFailingCheck ==
    (val.pc = "done" /\ val.isProduction) =>
        /\ val.outcome = FirstFailingCheck(val.rawUrl, val.answer)
        /\ val.lookedUp <=> val.outcome \notin {InvalidFormat, SchemeNotAllowed}

C9_Witness ==
    /\ val.pc = "done"
    /\ val.isProduction
    /\ val.rawUrl = <<"https", "hooks.a.example", "8080">>
    /\ ResolvesToBlocked(val.answer)
    /\ val.outcome = PrivateAddressBlocked

\* C10: a registration whose events value is missing, no array, empty or holds a name
\* outside the three event types is answered 400 in the step that receives it: no
\* lookup is started for it, none is ever in progress for such a request, and the
\* registry is left as it was, whatever its url.
BadEvents(ev) ==
    \/ ev.kind # "array"
    \/ ev.items = <<>>
    \/ \E i \in 1..Len(ev.items) :
          ev.items[i] \notin {"new_api_call", "settlement_completed", "low_balance_alert"}

C10_NoLookupInProgress ==
    /\ \A i \in 1..Len(reqs) : ~BadEvents(reqs[i].body.events)
    /\ (lastRes.op = "post" /\ BadEvents(lastRes.req[1].events)) => lastRes.status = 400

C10_RejectedAtOnce ==
    (lastRes' # lastRes /\ lastRes'.op = "post" /\ BadEvents(lastRes'.req[1].events)) =>
        /\ store' = store
        /\ reqs' = reqs
        /\ lastRes'.status = 400

C10_EventsCheckedFirst == []C10_NoLookupInProgress /\ [][C10_RejectedAtOnce]_vars

C10_Witness ==
    /\ lastRes.op = "post"
    /\ lastRes.status = 400
    /\ lastRes.req[1].url = UrlA
    /\ lastRes.req[1].developerId = "devA"
    /\ lastRes.req[1].events = Arr(<<"new_api_call", "webhook_deleted">>)
    /\ store # <<>>

\* a step in which a suspended registration request is answered
Answered == Len(reqs') < Len(reqs)
\* a step in which a registration request is answered 201; its body is lastRes'.req[1]
Registered == Answered /\ lastRes'.op = "post" /\ lastRes'.status = 201
\* the secret a request body asks for: JSON null and a missing property ask for none
SecretAsked(body) == IF body.secret \in {Null, Undefined} THEN Undefined ELSE body.secret

\* C11: whenever a registration request succeeds, whatever the registry held for its
\* developerId before (in particular the config of an earlier successful request), the
\* registry then holds exactly one config for that developerId, and its url, events
\* and secret are those of the request that succeeded last.
C11_SecondInputWins ==
    [][ Registered =>
          LET body == lastRes'.req[1]
              cfgs == get(store', body.developerId)
          IN /\ Len(cfgs) = 1
             /\ cfgs[1].url = body.url
             /\ cfgs[1].events = body.events.items
             /\ cfgs[1].secret = SecretAsked(body) ]_vars

\* devA's entry was inserted before devB's and written again after devB's was last
\* written: a second registration for devA succeeded on top of a first, and its
\* input is what the registry holds
C11_Witness ==
    /\ Len(store) = 2
    /\ store[1].developerId = "devA"
    /\ store[1].createdAt > store[2].createdAt
    /\ lastRes.op = "post" /\ lastRes.status = 201
    /\ lastRes.req[1] = RegBodyA1
    /\ store[1].url = UrlA /\ store[1].secret = "s1"

\* the registry holds at most one config per developerId
AtMostOnePerDeveloper ==
    \A i, j \in 1..Len(store) : store[i].developerId = store[j].developerId => i = j

\* a successful registration for a developerId that has a config replaces that config,
\* in its place, by the config built from the request alone; every other entry stays
ReplacedWholesale ==
    (Registered /\ Has(store, lastRes'.req[1].developerId)) =>
        LET body == lastRes'.req[1]
            fresh == [developerId |-> body.developerId, url |-> body.url,
                      events |-> body.events.items, secret |-> SecretAsked(body),
                      createdAt |-> now]
        IN /\ Len(store') = Len(store)
           /\ \A i \in 1..Len(store) :
                 store'[i] = IF store[i].developerId = body.developerId
                             THEN fresh ELSE store[i]

\* C12: the registry never holds two configs of one developerId, and a successful
\* re-registration replaces the previous config wholesale: the stored config is built
\* from the new request alone (no secret if the request has none, the new events
\* only), and no other developer's config changes.
C12_OnePerDeveloperReplaced == []AtMostOnePerDeveloper /\ [][ReplacedWholesale]_vars

\* devA re-registered, on top of an existing entry, by the request without a secret:
\* the stored config has no secret and only that request's events
C12_Witness ==
    /\ Len(store) = 2
    /\ store[1].developerId = "devA"
    /\ store[1].createdAt > store[2].createdAt
    /\ lastRes.op = "post" /\ lastRes.status = 201
    /\ lastRes.req[1] = RegBodyA2
    /\ store[1].secret = Undefined
    /\ store[1].events = <<"low_balance_alert">>

\* a step in which a removal request is answered; its developerId is lastRes'.req[1]
Removed == lastRes'.op = "delete" /\ (lastRes' # lastRes \/ store' # store)
\* the entries of every developer but d are the same before and after the step
OthersKept(d) == \A d2 \in Devs \ {d} : get(store', d2) = get(store, d2)

\* C13: registration and removal requests for one developerId that overlap in time
\* write the registry one whole write at a time: a step changes the registry only by
\* the single write of the request answered in that step, and after the step the
\* entry of that developerId is what that write makes it (the config of the request
\* for a registration, nothing for a removal), whatever the requests answered before
\* wrote and whatever requests are still suspended.
C13_LastWriteWins ==
    [][ /\ store' # store => (Registered \/ Removed)
        /\ Registered =>
              /\ get(store', lastRes'.req[1].developerId) = <<NewConfig(lastRes'.req[1], now)>>
              /\ OthersKept(lastRes'.req[1].developerId)
        /\ Removed =>
              /\ get(store', lastRes'.req[1]) = <<>>
              /\ OthersKept(lastRes'.req[1]) ]_vars

\* two registration requests for devA with different inputs are suspended at once
\* while the registry holds the config a third request for devA wrote last
C13_Witness ==
    /\ Len(reqs) = 2
    /\ reqs[1].body = RegBodyA1 /\ reqs[2].body = RegBodyA2
    /\ lastRes.op = "post" /\ lastRes.status = 201 /\ lastRes.req[1] = RegBodyA2
    /\ get(store, "devA") = <<NewConfig(RegBodyA2, 1)>>

\* hex(HMAC-SHA256(key, message)) as the receiver computes it
HmacSha256Hex(key, message) == <<"hmac-sha256-hex", key, message>>

BodyEvent(body) == body[2]
BodyTimestamp(body) == body[4]

\* every attempt of every chain sends the serialized envelope of its publish call,
\* with the event and timestamp headers echoing the body's fields
C15_SameBytes ==
    \A c \in 1..Len(chains) : \A j \in 1..Len(chains[c].posts) :
        LET post == chains[c].posts[j]
            envelope == calls[chains[c].call].payload
        IN /\ post.body = <<"event", envelope.event, "timestamp", envelope.timestamp,
                            "developerId", envelope.developerId, "data", envelope.data>>
           /\ post.headers.event = BodyEvent(post.body)
           /\ post.headers.timestamp = BodyTimestamp(post.body)
           /\ post.body = chains[c].posts[1].body

\* the timestamp is the time of the publish call, and an envelope never changes
C15_StampedOnce ==
    /\ \A k \in 1..Len(calls) : calls'[k] = calls[k]
    /\ Len(calls') > Len(calls) =>
          calls'[Len(calls')].payload.timestamp = <<"ISO-8601", now>>

\* C15: an envelope gets its timestamp once, at publish, and never changes; every
\* attempt of every delivery chain of the envelope sends the same serialized body and
\* the same X-Callora-Event and X-Callora-Timestamp headers, equal to the body's event
\* and timestamp fields, however much time has passed since the publish.
C15_EnvelopeImmutable == []C15_SameBytes /\ [][C15_StampedOnce]_vars

\* an envelope published at time 0 has been re-sent and the clock has moved on
C15_Witness ==
    \E c \in 1..Len(chains) :
        /\ Len(chains[c].posts) >= 3
        /\ calls[chains[c].call].payload.timestamp = <<"ISO-8601", 0>>
        /\ now = 2

\* the registries that differ from m at most in the values of the secrets
SecretValues == {Undefined, "", "s1", "s2"}
SecretVariants(m) ==
    { [i \in 1..Len(m) |-> [m[i] EXCEPT !.secret = f[i]]] : f \in [1..Len(m) -> SecretValues] }

\* every response the router sends is the route's response function applied to the
\* registry of the moment
C16_ResponsesAreFunctions ==
    /\ (lastRes'.op = "get" /\ lastRes' # lastRes) =>
           lastRes' = getResponse(store, lastRes'.req[1])
    /\ Removed => lastRes' = deleteResponse(store, lastRes'.req[1])
    /\ Answered =>
           \E i \in 1..Len(reqs), r \in AdmDns :
               lastRes' = registerResponse(store, reqs[i].body, reqs[i].isProduction, r)
    /\ (lastRes'.op = "post" /\ lastRes' # lastRes /\ ~Answered) =>
           \E p \in BOOLEAN :
               lastRes' = registerResponse(store, lastRes'.req[1], p, <<PublicV4>>)

\* the response functions give the same response on registries that differ only in
\* secrets, and no response body has a secret field
C16_SecretBlind ==
    /\ \A m2 \in SecretVariants(store) :
          /\ \A d \in Devs :
                /\ getResponse(m2, d) = getResponse(store, d)
                /\ deleteResponse(m2, d) = deleteResponse(store, d)
          /\ \A i \in 1..Len(reqs), r \in AdmDns :
                registerResponse(m2, reqs[i].body, reqs[i].isProduction, r)
                  = registerResponse(store, reqs[i].body, reqs[i].isProduction, r)
    /\ lastRes.status # 0 => "secret" \notin DOMAIN lastRes.body

\* C16: the responses of register, get and remove do not depend on the value of any
\* stored secret: each response is a function of the request and the registry that
\* gives the same result on two registries differing only in secrets, and no response,
\* that of get included, has a secret field.
C16_SecretNeverReturned == []C16_SecretBlind /\ [][C16_ResponsesAreFunctions]_vars

\* get answered 200 for a developer whose stored config has the secret "s1"
C16_Witness ==
    /\ lastRes.op = "get" /\ lastRes.status = 200
    /\ get(store, "devA") # <<>>
    /\ get(store, "devA")[1].secret = "s1"

\* removal can always be requested; removing an absent developerId changes nothing,
\* removing twice is removing once, and other developers' configs stay
C17_DeleteAlgebra ==
    \A d \in Devs :
        /\ ENABLED DeleteWebhook(d)
        /\ get(store, d) = <<>> => delete(store, d) = store
        /\ delete(delete(store, d), d) = delete(store, d)
        /\ get(delete(store, d), d) = <<>>
        /\ \A d2 \in Devs \ {d} : get(delete(store, d), d2) = get(store, d2)

\* a removal request is answered with the acknowledgment and does what delete does
C17_Acknowledged ==
    Removed =>
        /\ lastRes'.status = 200
        /\ lastRes'.body = [message |-> "Webhook removed."]
        /\ store' = delete(store, lastRes'.req[1])
        /\ get(store, lastRes'.req[1]) = <<>> => store' = store

\* C17: remove(developerId) can always be called and always answers the
\* acknowledgment; when the developerId has no config the registry stays as it is,
\* removing twice leaves the registry of removing once, and the configs of other
\* developers are never affected.
C17_RemovalIdempotent == []C17_DeleteAlgebra /\ [][C17_Acknowledged]_vars

\* devA's removal was acknowledged, devA has no config and devB's config is in place:
\* the next removal of devA is a removal of an absent entry
C17_Witness ==
    /\ lastRes.op = "delete" /\ lastRes.req[1] = "devA" /\ lastRes.status = 200
    /\ get(store, "devA") = <<>>
    /\ get(store, "devB") # <<>>

AdmissionFailures ==
    {InvalidFormat, SchemeNotAllowed, UnresolvableHost, PrivateAddressBlocked, PortNotAllowed}

\* a request that passed the body checks and is answered without a lookup is refused
\* with the reason of the check that failed, and nothing else changes
C18_RefusedBeforeLookup ==
    (lastRes'.op = "post" /\ lastRes' # lastRes /\ ~Answered
       /\ bodyChecks(lastRes'.req[1]) = <<>>) =>
        /\ lastRes'.status = 400
        /\ \E p \in BOOLEAN :
              lastRes'.body.error = validateBeforeLookup(lastRes'.req[1].url, p)
        /\ lastRes'.body.error \in {InvalidFormat, SchemeNotAllowed}
        /\ store' = store /\ reqs' = reqs

\* a request answered after its lookup: if its URL fails admission the answer is 400
\* with the reason and the registry is as before; it is stored only with the 201
C18_RefusedAfterLookup ==
    Answered =>
        \E i \in 1..Len(reqs), r \in AdmDns :
            LET v == validateWebhookUrl(reqs[i].body.url, reqs[i].isProduction, r)
            IN /\ reqs' = RemoveAt(reqs, i)
               /\ lastRes'.req = <<reqs[i].body>>
               /\ IF v # Accepted
                  THEN /\ v \in AdmissionFailures
                       /\ lastRes'.status = 400 /\ lastRes'.body.error = v
                       /\ store' = store
                  ELSE /\ lastRes'.status = 201
                       /\ get(store', reqs[i].body.developerId) # <<>>

\* C18: a registration whose URL fails admission is answered 400 with the failure
\* reason, in the same step in which the failure is found, and is never stored: the
\* registry after that step is the registry before it (a config the developer had
\* stays in place), and a request is stored only in the step that answers it 201.
C18_RejectedNeverStored == [][C18_RefusedBeforeLookup /\ C18_RefusedAfterLookup]_vars

\* devA holds a config for UrlA and a later registration of devA, for another URL,
\* was refused after its lookup
C18_Witness ==
    /\ lastRes.op = "post" /\ lastRes.status = 400
    /\ lastRes.body.error \in {UnresolvableHost, PrivateAddressBlocked, PortNotAllowed}
    /\ lastRes.req[1].url = UrlHttp
    /\ get(store, "devA") # <<>>
    /\ get(store, "devA")[1].url = UrlA

\* the attempts of chain ch that were sent and not yet answered
InFlight(ch) == Len(ch.posts) - Len(ch.replies)

\* at most one attempt of a chain is in flight, and only while the chain awaits it;
\* attempt N+1 was sent only after N+1 backoff sleeps, the one after attempt N of
\* 1000 * 2^N ms, and while a sleep runs the next attempt is not sent yet
C19_OneAtATime ==
    \A c \in 1..Len(chains) :
        LET ch == chains[c] IN
        /\ InFlight(ch) \in {0, 1}
        /\ InFlight(ch) = 1 <=> ch.pc = "posting"
        /\ \A n \in 1..Len(ch.sleeps) : ch.sleeps[n] = 1000 * (2 ^ (n - 1))
        /\ ch.pc = "posting" => Len(ch.sleeps) = Len(ch.posts) - 1
        /\ ch.pc = "sleeping" => Len(ch.sleeps) = Len(ch.posts)

\* a chain sends a further attempt only in the step in which its sleep ends, with every
\* earlier attempt answered by a failure; a sleep starts only when an answer arrives
C19_NextAfterSleep ==
    \A c \in 1..Len(chains) :
        /\ Len(chains'[c].posts) > Len(chains[c].posts) =>
              /\ chains[c].pc = "sleeping"
              /\ Len(chains'[c].posts) = Len(chains[c].posts) + 1
              /\ Len(chains[c].replies) = Len(chains[c].posts)
              /\ AllFail(chains[c])
              /\ chains[c].sleeps[Len(chains[c].posts)]
                   = 1000 * (2 ^ (Len(chains[c].posts) - 1))
        /\ (chains'[c].pc = "sleeping" /\ chains[c].pc # "sleeping") =>
              /\ chains[c].pc = "posting"
              /\ Len(chains'[c].replies) = Len(chains[c].replies) + 1

\* C19: the attempts of one delivery chain are strictly sequential: at most one is in
\* flight at any time, attempt N+1 starts only after attempt N was answered by a
\* failure and, then, only in the step in which the backoff sleep of 1000 * 2^N ms
\* that followed it ends.
C19_StrictlySequential == []C19_OneAtATime /\ [][C19_NextAfterSleep]_vars

\* the third attempt is in flight after two failures and sleeps of 1000 and 2000 ms
C19_Witness ==
    \E c \in 1..Len(chains) :
        /\ chains[c].pc = "posting"
        /\ Len(chains[c].posts) = 3
        /\ chains[c].replies = <<"fail", "fail">>
        /\ chains[c].sleeps = <<1000, 2000>>

\* a final outcome
Final(ch) == ch.pc \in {"delivered", "dropped"}

\* a chain makes at most 5 attempts and 4 sleeps; it is delivered exactly when an
\* attempt was answered 2xx and dropped exactly when 5 attempts failed
C20_Bounded ==
    \A c \in 1..Len(chains) :
        LET ch == chains[c] IN
        /\ Len(ch.posts) <= 5
        /\ Len(ch.sleeps) <= 4
        /\ ch.pc \in {"posting", "sleeping", "delivered", "dropped"}
        /\ ch.pc = "delivered" <=> (\E j \in 1..Len(ch.replies) : ch.replies[j] = "2xx")
        /\ ch.pc = "dropped" <=> (Len(ch.replies) = 5 /\ AllFail(ch))

\* every chain that was started reaches a final outcome
C20_Terminates ==
    \A k \in 1..ChainCalls :
        [](Len(chains) >= k => <>(Len(chains) >= k /\ Final(chains[k])))

\* C20: provided every HTTP attempt is answered or fails and every sleep ends, every
\* delivery chain reaches a final outcome, which is exactly one of delivered (an
\* attempt was answered 2xx) and dropped (5 attempts failed), after at most 5 attempts
\* and at most 4 sleeps.
C20_ChainTerminates == []C20_Bounded /\ C20_Terminates

\* a chain was dropped after 5 attempts and 4 sleeps
C20_Witness ==
    \E c \in 1..Len(chains) :
        /\ chains[c].pc = "dropped"
        /\ Len(chains[c].posts) = 5
        /\ Len(chains[c].sleeps) = 4
        /\ Len(chains[c].replies) = 5

Delivering == calls' # calls \/ chains' # chains

\* C22: no publish and no step of a delivery chain (attempt sent, answer received,
\* backoff started or ended, delivered, dropped) changes the registry: the configs and
\* all their fields are the same before and after; the registry changes only in a
\* step that answers a registration 201 or answers a removal.
C22_RegistryFrame ==
    [][ /\ Delivering => store' = store
        /\ store' # store => (Registered \/ Removed) ]_vars

\* devA's delivery was dropped after five failures and devA's config is in the
\* registry exactly as the chain captured it
C22_Witness ==
    \E c \in 1..Len(chains) :
        /\ chains[c].pc = "dropped"
        /\ Len(chains[c].posts) = 5
        /\ get(store, chains[c].config.developerId) = <<chains[c].config>>

\* a publish or a chain's step neither calls the validator nor issues a lookup
C23_NoValidatorCall == Delivering => (val' = val /\ reqs' = reqs)

\* every chain that a publish starts sends its first POST to its config's url, and
\* every chain whose sleep ends sends the next one there
C23_PostsAnyway ==
    /\ \A c \in (Len(chains) + 1)..Len(chains') :
          /\ chains'[c].pc = "posting"
          /\ chains'[c].posts = <<[url |-> chains'[c].config.url, body |-> chains'[c].body,
                                   headers |-> chains'[c].headers]>>
    /\ \A c \in 1..Len(chains) :
          (chains[c].pc = "sleeping" /\ chains'[c] # chains[c]) =>
              /\ chains'[c].pc = "posting"
              /\ Len(chains'[c].posts) = Len(chains[c].posts) + 1
              /\ chains'[c].posts[Len(chains'[c].posts)].url = chains[c].config.url

\* a sleeping chain can always go on to its next attempt, and the validator, asked
\* now about a stored url, refuses it when the hostname resolves to a blocked address
C23_ResolutionIgnored ==
    /\ \A c \in 1..Len(chains) : chains[c].pc = "sleeping" => ENABLED SleepElapsed(c)
    /\ val.pc = "done" => val.outcome = PrivateAddressBlocked

\* C23: no publish and no delivery attempt calls the URL admission validator or
\* resolves the target's hostname: a config that is in the registry is POSTed to at
\* every attempt, also when its hostname has come to resolve to an address in a
\* blocked range, for which the validator would now refuse the url.
C23_NeverRevalidated ==
    []C23_ResolutionIgnored /\ [][C23_NoValidatorCall /\ C23_PostsAnyway]_vars

\* the validator has just refused devA's url as resolving to a private address, and
\* a delivery to that url is at its third attempt
C23_Witness ==
    /\ val.pc = "done" /\ val.outcome = PrivateAddressBlocked
    /\ \E c \in 1..Len(chains) :
          /\ chains[c].config.url = val.rawUrl
          /\ chains[c].pc = "posting"
          /\ Len(chains[c].posts) = 3

\* the promise of a dispatchToAll call is never rejected and is fulfilled exactly when
\* every chain the call started has reached a final outcome
C24_CompletesWithLast ==
    \A k \in 1..Len(calls) :
        /\ Cardinality(ChainsOf(chains, k)) = calls[k].targets
        /\ dispatchToAllPromise(chains, k) \in {"pending", "fulfilled"}
        /\ dispatchToAllPromise(chains, k) = "fulfilled"
             <=> \A c \in ChainsOf(chains, k) : Final(chains[c])

\* the call starts one chain per config of its list, in the order of the list, each
\* with its first attempt sent
C24_OneChainPerConfig ==
    Len(calls') > Len(calls) =>
        \E configs \in DaConfigLists :
            /\ Len(chains') = Len(chains) + Len(configs)
            /\ \A i \in 1..Len(configs) :
                  /\ chains'[Len(chains) + i].config = configs[i]
                  /\ chains'[Len(chains) + i].call = Len(calls')
                  /\ chains'[Len(chains) + i].pc = "posting"
                  /\ Len(chains'[Len(chains) + i].posts) = 1

\* C24: dispatchToAll(configs, envelope) starts one delivery chain per config and its
\* promise is fulfilled only when every one of these chains is delivered or dropped:
\* it stays pending while any chain is still posting or sleeping, whatever the other
\* chains have come to, and it is never rejected.
C24_WaitsForAll == []C24_CompletesWithLast /\ [][C24_OneChainPerConfig]_vars

\* of the two chains of one call the first is dropped and the second still sleeps:
\* the call's promise is pending
C24_Witness ==
    /\ Len(chains) = 2
    /\ chains[1].pc = "dropped"
    /\ chains[2].pc = "sleeping"
    /\ dispatchToAllPromise(chains, 1) = "pending"

\* every stored config has a non-empty events list of enumeration values and a url
\* that parses as an absolute URL
C25_WellFormed ==
    \A i \in 1..Len(store) :
        /\ Len(store[i].events) > 0
        /\ \A j \in 1..Len(store[i].events) :
              store[i].events[j] \in {"new_api_call", "settlement_completed", "low_balance_alert"}
        /\ UrlParses(store[i].url)

\* a config is stored only by a request whose url validate accepted, with the lookup
\* result and in the posture of that request; in production posture that url is https
C25_ValidatedWhenStored ==
    \A i \in 1..Len(reqs), r \in AdmDns :
        (PostWebhookResume(i, r) /\ store' # store) =>
            /\ validateWebhookUrl(reqs[i].body.url, reqs[i].isProduction, r) = Accepted
            /\ get(store', reqs[i].body.developerId)[1].url = reqs[i].body.url
            /\ reqs[i].isProduction => reqs[i].body.url[1] = "https"

\* C25: every config in the registry was admitted: its events list is non-empty and
\* holds only values of the closed enumeration, and its url was accepted by validate,
\* in the posture and with the lookup result of its request, in the step that stored
\* it; a url stored by a request made in production posture uses https.
C25_OnlyAdmittedStored == []C25_WellFormed /\ [][C25_ValidatedWhenStored]_vars

\* a request has just stored an https url with two subscribed events
C25_Witness ==
    /\ lastRes.op = "post" /\ lastRes.status = 201
    /\ get(store, "devA") # <<>>
    /\ get(store, "devA")[1].url = UrlA
    /\ get(store, "devA")[1].events = <<"settlement_completed", "low_balance_alert">>

\* the developerIds of a registry in its iteration order
DevOrder(m) == [i \in 1..Len(m) |-> m[i].developerId]

\* getByEvent(e) returns the registered configs whose events contain e, each once,
\* in the order of the registry
C26_ExactlySubscribed ==
    \A e \in {"new_api_call", "settlement_completed", "low_balance_alert"} :
        LET res == getByEvent(store, e) IN
        /\ \A i \in 1..Len(res) :
              /\ \E k \in 1..Len(store) : store[k] = res[i]
              /\ \E j \in 1..Len(res[i].events) : res[i].events[j] = e
        /\ \A k \in 1..Len(store) :
              (\E j \in 1..Len(store[k].events) : store[k].events[j] = e)
                 => \E i \in 1..Len(res) : res[i] = store[k]
        /\ \A i, j \in 1..Len(res) :
              i < j => \E k, l \in 1..Len(store) :
                          k < l /\ store[k] = res[i] /\ store[l] = res[j]

\* the order of the registry is the order of first insertion: a re-registration keeps
\* the developerId's place, a registration of an absent developerId (one that was
\* removed included) goes to the end, a removal keeps the order of the others; and a
\* publish, which calls getByEvent, leaves the registry as it is
C26_InsertionOrder ==
    /\ (Registered /\ Has(store, lastRes'.req[1].developerId)) =>
           DevOrder(store') = DevOrder(store)
    /\ (Registered /\ ~Has(store, lastRes'.req[1].developerId)) =>
           DevOrder(store') = Append(DevOrder(store), lastRes'.req[1].developerId)
    /\ Removed =>
           DevOrder(store') = SelectSeq(DevOrder(store), LAMBDA d : d # lastRes'.req[1])
    /\ calls' # calls => store' = store

\* C26: getByEvent(e) returns exactly the registered configs whose events contain e,
\* of all developers, in the order in which the developerIds were first inserted: a
\* re-registration keeps the place, a registration after a removal goes to the end;
\* the call does not change the registry.
C26_GetByEventOrdered == []C26_ExactlySubscribed /\ [][C26_InsertionOrder]_vars

\* devA, inserted first and re-registered for two events, comes before devB in the
\* result for the event both subscribe to and alone for the other, after a publish
C26_Witness ==
    /\ Len(store) = 2
    /\ store[1].developerId = "devA" /\ store[1].url = UrlA2
    /\ getByEvent(store, "new_api_call") = <<store[1], store[2]>>
    /\ getByEvent(store, "low_balance_alert") = <<store[1]>>
    /\ calls # <<>>

\* C27 as stated: once the removal of developer d is acknowledged, a registration
\* request for d that was submitted before the removal and is still validating cannot
\* make a config for d appear: while the acknowledgment is the last response sent (no
\* request has been submitted since), the next step leaves d without a config.
C27_StaysRemoved ==
    [][ lastRes.op = "delete" => get(store', lastRes.req[1]) = <<>> ]_vars

\* a removal leaves its developerId without a config and does not touch the
\* suspended requests; a config appears for a developerId only in a step that answers
\* a registration of that developerId 201; and a suspended request whose url is
\* accepted stores its config, whatever was removed while it was suspended
C27_StoredOnCompletion ==
    /\ Removed => (get(store', lastRes'.req[1]) = <<>> /\ reqs' = reqs)
    /\ \A d \in Devs :
          (get(store, d) = <<>> /\ get(store', d) # <<>>) =>
              (Registered /\ lastRes'.req[1].developerId = d)
    /\ \A i \in 1..Len(reqs), r \in RegDns :
          (PostWebhookResume(i, r)
             /\ validateAfterLookup(reqs[i].parsed, reqs[i].isProduction, r) = Accepted) =>
              get(store', reqs[i].body.developerId) = <<NewConfig(reqs[i].body, now)>>

\* a suspended request can be answered in every state
C27_NotCancelled == \A i \in 1..Len(reqs) : ENABLED PostWebhookResume(i, <<PublicV4>>)

\* C27 amended: after an acknowledged removal of d, d has no config until a
\* registration request for d succeeds, and that request may have been submitted
\* before the removal: a request that is validating when the removal runs is not
\* cancelled and stores its config when its validation completes.
C27_ReappearsOnCompletion == []C27_NotCancelled /\ [][C27_StoredOnCompletion]_vars

\* devA's removal is the last response sent, devA has no config, and a registration of
\* devA, submitted before the removal, is still suspended and can complete
C27_Witness ==
    /\ lastRes.op = "delete" /\ lastRes.req = <<"devA">>
    /\ get(store, "devA") = <<>>
    /\ Len(reqs) >= 1 /\ reqs[1].body.developerId = "devA"
    /\ ENABLED PostWebhookResume(1, <<PublicV4>>)

\* every attempt of a chain went to the url of the chain's config, with the headers
\* (signature included) built from that config, and all attempts are the same request
C28_SameRequest ==
    \A c \in 1..Len(chains) :
        \A i \in 1..Len(chains[c].posts) :
            /\ chains[c].posts[i] = chains[c].posts[1]
            /\ chains[c].posts[i].url = chains[c].config.url
            /\ chains[c].posts[i].headers =
                   Headers(chains[c].config, chains[c].payload, chains[c].body)

\* a chain that sleeps before a retry can go on, whatever the registry holds
C28_RetryStaysEnabled ==
    \A c \in 1..Len(chains) : chains[c].pc = "sleeping" => ENABLED SleepElapsed(c)

\* the config of a chain is the one the registry held for the publisher when the event
\* was published, and it stays the chain's config; a step that changes the registry
\* changes no chain; and a chain that wakes from its sleep sends one more POST
C28_ConfigCaptured ==
    /\ \A c \in 1..Len(chains') :
          IF c <= Len(chains)
          THEN chains'[c].config = chains[c].config
          ELSE get(store, chains'[c].payload.developerId) = <<chains'[c].config>>
    /\ store' # store => chains' = chains
    /\ \A c \in 1..Len(chains) :
          (chains[c].pc = "sleeping" /\ chains'[c] # chains[c]) =>
              /\ chains'[c].pc = "posting"
              /\ Len(chains'[c].posts) = Len(chains[c].posts) + 1

\* C28: a chain uses the config captured when the event was published for all its
\* attempts; removing or re-registering the developer's webhook while the chain is
\* retrying neither cancels the chain nor changes the url or the signature of its
\* later attempts, so POSTs to the old url can follow an acknowledged removal.
C28_ChainKeepsConfig ==
    /\ [](C28_SameRequest /\ C28_RetryStaysEnabled)
    /\ [][C28_ConfigCaptured]_vars

\* devA's removal is the last response sent and devA has no config, while a chain for
\* devA's old url has failed an attempt, sleeps, and can send its next attempt
C28_Witness ==
    /\ lastRes.op = "delete" /\ lastRes.req = <<"devA">>
    /\ get(store, "devA") = <<>>
    /\ \E c \in 1..Len(chains) :
          /\ chains[c].config.developerId = "devA"
          /\ chains[c].pc = "sleeping"
          /\ Len(chains[c].posts) >= 2
          /\ ENABLED SleepElapsed(c)

\* the registry holds at most one config per developerId
C29_OneConfigPerDeveloper ==
    \A d \in Devs : Len(get(store, d)) <= 1

\* the attempts that were answered 2xx, over the chains of call k
C29_Acknowledged(k) ==
    {<<c, i>> \in (1..Len(chains)) \X (1..MAX_RETRIES) :
        c \in ChainsOf(chains, k) /\ i <= Len(chains[c].replies)
                                  /\ chains[c].replies[i] = "2xx"}

\* C29: each published event starts at most one delivery chain: the set passed to
\* dispatchToAll has size 0 or 1, so one publish causes at most 5 HTTP POSTs in total
\* and at most one 2xx-acknowledged delivery.
C29_AtMostOneChain ==
    /\ C29_OneConfigPerDeveloper
    /\ \A k \in 1..Len(calls) :
          /\ calls[k].targets \in {0, 1}
          /\ Cardinality(ChainsOf(chains, k)) = calls[k].targets
          /\ \A c \in ChainsOf(chains, k) : Len(chains[c].posts) <= MAX_RETRIES
          /\ Cardinality(C29_Acknowledged(k)) <= 1

\* two developers are registered for new_api_call; one publish of it started one chain,
\* which was delivered on its fifth POST
C29_Witness ==
    /\ Len(getByEvent(store, "new_api_call")) = 2
    /\ Len(calls) = 1 /\ calls[1].payload.event = "new_api_call" /\ calls[1].targets = 1
    /\ ChainsOf(chains, 1) = {1}
    /\ Len(chains[1].posts) = MAX_RETRIES
    /\ chains[1].pc = "delivered"

\* C30 as stated: an attempt carries the X-Callora-Signature header if and only if the
\* config used for the delivery has a secret stored, the empty string included.
C30_SignedIffSecretStored ==
    \A c \in 1..Len(chains) : \A j \in 1..Len(chains[c].posts) :
        chains[c].posts[j].headers.signature # <<>> <=> chains[c].config.secret # Undefined

====
